---- MODULE Spec2Model ----
(***************************************************************************)
(* galilego: the image request pipeline of main.go.  HTTP handlers         *)
(* (serveGallery) hand Image requests to the getImage worker over the      *)
(* unbuffered channel reqimage and wait on a private return channel.       *)
(* Strings are sequences of one-character strings so that path arithmetic  *)
(* (fmt.Sprintf, filepath.Dir, the imgre pattern) is computed.             *)
(***************************************************************************)
EXTENDS Integers, Sequences, FiniteSets, TLC

\* ---------------------------------------------------------------- bounds
NumHandlers == 2
MaxPathLen == 2
MaxProbeSize == 11

\* ------------------------------------------------------- program constants
\* a getImage worker started twice
TwoWorkers == 1 + 1

\* main.go:78 starts getImage exactly once
NumWorkers == 1

\* the widths the gallery page asks for (lines 279, 280) and the width of a
\* request without a width parameter (line 185)
ImageWidth == 1200
ThumbWidth == 300
NoWidth == 0

Handlers == 1..NumHandlers
Workers == 1..NumWorkers
Sizes == {NoWidth, ThumbWidth, ImageWidth}

\* ---------------------------------------------------------------- strings
Digits == <<"0", "1", "2", "3", "4", "5", "6", "7", "8", "9">>

RECURSIVE Decimal(_)
\* the %d verb of fmt.Sprintf applied to a uint
Decimal(n) ==
    IF n < 10 THEN <<Digits[n + 1]>>
    ELSE Decimal(n \div 10) \o <<Digits[(n % 10) + 1]>>

CacheRoot == <<"i", "m", "g", "c", "a", "c", "h", "e", "/">>
GalleryRoot == <<"g", "a", "l", "l", "e", "r", "y", "/">>

\* fmt.Sprintf("imgcache/%s_%d", path, size) without the separator
cachePathNoSep(path, size) == CacheRoot \o path \o Decimal(size)

\* fmt.Sprintf("imgcache/%s_%d", img.path, img.size)
cachePath(path, size) == CacheRoot \o path \o <<"_">> \o Decimal(size)

\* positions of the path separator in s
SlashAt(s) == {i \in 1..Len(s) : s[i] = "/"}

Max(S) == CHOOSE x \in S : \A y \in S : y <= x

\* filepath.Dir: everything before the last separator
Dir(s) == IF SlashAt(s) = {} THEN <<".">> ELSE SubSeq(s, 1, Max(SlashAt(s)) - 1)

\* the directories os.MkdirAll(d) makes sure exist: d and its ancestors
DirChain(d) == {SubSeq(d, 1, i - 1) : i \in SlashAt(d)} \cup {d}

EndsWith(s, suf) ==
    /\ Len(s) >= Len(suf)
    /\ SubSeq(s, Len(s) - Len(suf) + 1, Len(s)) = suf

ImgSuffixes ==
    { <<".", "j", "p", "g">>, <<".", "j", "p", "e", "g">>,
      <<".", "p", "n", "g">>, <<".", "g", "i", "f">> }

\* imgre.MatchString: (?i).*\.(jpe?g|png|gif)$ on the lower-case names used here
imgre(s) == \E suf \in ImgSuffixes : EndsWith(s, suf)

\* the gallery entries requests are made for: an image name and the gallery
\* directory itself (a listing, not an image)
GalNames == { <<"a", ".", "j", "p", "g">>, <<>> }
ReqPaths == {GalleryRoot \o n : n \in GalNames}
ImgPaths == {p \in ReqPaths : imgre(p)}

\* ------------------------------------------------------------------ values
SrcKinds == {"jpeg", "other"}
Versions == {"v1", "v2"}
NoFile == [kind |-> "none", ver |-> "-"]
NoData == [path |-> <<>>, ver |-> "-", size |-> 0, whole |-> FALSE]
NoEntry == [exists |-> FALSE, data |-> NoData, gen |-> 0, first |-> NoData]
NilErr == "nil"

\* time.Time values: the zero time, the modification time of a file (of a
\* given content of a gallery file, or of a cache file), or time.Now()
ZeroTime == [of |-> "zero", name |-> <<>>, ver |-> "-"]
Now == [of |-> "now", name |-> <<>>, ver |-> "-"]
SrcModTime(p, f) == [of |-> "src", name |-> p, ver |-> f.ver]
CacheModTime(c) == [of |-> "cache", name |-> c, ver |-> "-"]

\* *os.File values: nil, or the file a request opened in one of the two trees
NilFd == [req |-> 0, tree |-> "nil"]
Trees == {"src", "cache"}
Unopened == [name |-> <<>>, snap |-> NoFile, opens |-> 0, closes |-> 0]

VARIABLES
    src,        \* gallery tree: image path -> NoFile or [kind, ver]
    cache,      \* cache tree: cache path -> [exists, data, gen, first]
    dirs,       \* directories existing under the cache root
    diskFull,   \* the cache file system has no space left
    fdtab,      \* the files each request opened: [name, snap, opens, closes]
    hpc,        \* position of each serveGallery invocation
    himg,       \* its local variable img
    closed,     \* whether its returnchan has been closed
    served,     \* what it wrote to the HTTP response
    logged,     \* the errors it wrote to the log at line 203
    wpc,        \* position of each getImage worker
    wimg,       \* the worker's loop variable img
    wcached,    \* the worker's variable cachedPath
    wthumb,     \* the worker's variable m
    enq,        \* history: requests in the order reqimage accepted them
    sent,       \* history: number of sends on each return channel
    ops,        \* history: the steps the worker performed for a request
    hitAtDeq,   \* history: the request's cache file existed when dequeued
    asked,      \* history: the path and size a running invocation asked for
    fails,      \* history: the steps that failed while processing a request
    probe,      \* two inputs of cachePath and the paths computed from them
    auth,       \* one request passing through the authenticate wrapper
    ref         \* what the earlier getImage(path, size) does for one request

vars == <<src, cache, dirs, diskFull, fdtab, hpc, himg, closed, served, logged,
          wpc, wimg, wcached, wthumb, enq, sent, ops, hitAtDeq, asked,
          fails, probe, auth, ref>>

fsvars == <<src, cache, dirs, diskFull>>
hvars == <<hpc, himg, closed, served, logged>>
wvars == <<wpc, wimg, wcached, wthumb>>
histvars == <<enq, sent, ops, hitAtDeq, asked, fails>>

\* the zero Image value
ZeroImage ==
    [path |-> <<>>, size |-> 0, fd |-> NilFd, modtime |-> ZeroTime,
     returnchan |-> 0, err |-> NilErr]

NoResponse == [status |-> 0, data |-> NoData]

NoAsk == [path |-> <<>>, size |-> 0]

NoProbe == [p1 |-> <<>>, s1 |-> 0, p2 |-> <<>>, s2 |-> 0,
            c1 |-> <<>>, c2 |-> <<>>, done |-> FALSE]

\* no request is in the authenticate wrapper
NoAuth ==
    [enabled |-> FALSE, hdr |-> [text |-> <<>>, kind |-> "none"], pc |-> "none",
     authbytes |-> <<>>, username |-> <<>>, password |-> <<>>,
     calls |-> 0, out |-> <<>>]

\* *os.File values of the earlier getImage: nil, or a file of a tree
NilFile == [tree |-> "nil", name |-> <<>>]

\* every cache file name a request of the model can ask for
CachePaths == {cachePath(p, s) : p \in ImgPaths, s \in Sizes}

\* the content of a cache tree: which files exist, and with which bytes
CacheTree(c) ==
    [x \in CachePaths |-> [exists |-> c[x].exists, data |-> c[x].data]]

\* the earlier getImage has not been called
NoRef ==
    [req |-> 0, fd |-> NilFile, modtime |-> ZeroTime, err |-> NilErr,
     files |-> CacheTree([x \in CachePaths |-> NoEntry]), dirs |-> {},
     fatal |-> FALSE]

\* nothing is running and the cache tree is empty
InitRest ==
    /\ cache = [c \in CachePaths |-> NoEntry]
    /\ dirs = {}
    /\ fdtab = [h \in Handlers |-> [t \in Trees |-> Unopened]]
    /\ hpc = [h \in Handlers |-> "idle"]
    /\ himg = [h \in Handlers |-> ZeroImage]
    /\ closed = [h \in Handlers |-> FALSE]
    /\ served = [h \in Handlers |-> NoResponse]
    /\ logged = [h \in Handlers |-> {}]
    /\ wpc = [w \in Workers |-> "wait"]
    /\ wimg = [w \in Workers |-> ZeroImage]
    /\ wcached = [w \in Workers |-> <<>>]
    /\ wthumb = [w \in Workers |-> NoData]
    /\ enq = <<>>
    /\ sent = [h \in Handlers |-> 0]
    /\ ops = [h \in Handlers |-> {}]
    /\ hitAtDeq = [h \in Handlers |-> FALSE]
    /\ asked = [h \in Handlers |-> NoAsk]
    /\ fails = [h \in Handlers |-> {}]

\* the state after main has started the worker (lines 77-78), for any
\* content of the gallery
Init ==
    /\ src \in [ImgPaths -> {NoFile} \cup
                   {[kind |-> k, ver |-> "v1"] : k \in SrcKinds}]
    /\ diskFull \in BOOLEAN
    /\ InitRest
    /\ probe = NoProbe
    /\ auth = NoAuth
    /\ ref = NoRef

\* ------------------------------------------------------------- file system
\* an open or stat of a gallery path that succeeds for any name
SrcExistsAlways(p) == TRUE

\* os.Open / os.Stat of a gallery path succeed when the file is there
SrcExists(p) == src[p].kind # "none"

\* a cache check that never finds the file
ExistsNever(c) == FALSE

\* a cache check that also compares the cached content with the source's
ExistsFresh(c) ==
    /\ cache[c].exists
    /\ \A p \in ImgPaths : cache[c].data.path = p => cache[c].data.ver = src[p].ver

\* os.Stat(cachedPath) returns no error
Exists(c) == cache[c].exists

\* the bytes read through an open file: a gallery file keeps the content it
\* had when opened (the owner replaces files), a cache file is read in place
ReadFd(fd) ==
    IF fd.tree = "src"
    THEN [path |-> fdtab[fd.req].src.name, ver |-> fdtab[fd.req].src.snap.ver,
          size |-> 0, whole |-> TRUE]
    ELSE cache[fdtab[fd.req].cache.name].data

\* a file that is closed again as soon as it has been opened
OpenedClosed(h, t, name, snap) ==
    [fdtab EXCEPT ![h][t] =
        [name |-> name, snap |-> snap, opens |-> @.opens + 1,
         closes |-> @.closes + 1]]

\* os.Open / os.Create returned a file of tree t to request h
Opened(h, t, name, snap) ==
    [fdtab EXCEPT ![h][t] =
        [name |-> name, snap |-> snap, opens |-> @.opens + 1, closes |-> @.closes]]

\* a Close that is forgotten
ClosedNever(fd) == fdtab

\* fd.Close()
Closed(fd) ==
    IF fd = NilFd THEN fdtab
    ELSE [fdtab EXCEPT ![fd.req][fd.tree].closes = @ + 1]

\* an error path that leaves the worker function
ErrTargetExit == "exit"

\* an error path that goes on with the next request
ErrTargetLoop == "wait"

\* goto publish
ErrTarget == "publish"

\* ---------------------------------------------------------- serveGallery
\* a handler that opens an existing cache file itself instead of asking the
\* worker for it
StartShortCut(h, p, s) ==
    /\ hpc[h] = "idle"
    /\ \A g \in Handlers : g < h => hpc[g] # "idle"
    /\ IF imgre(p)
       THEN /\ asked' = [asked EXCEPT ![h] = [path |-> p, size |-> s]]
            /\ IF s > 0 /\ cache[cachePath(p, s)].exists
               THEN /\ himg' = [himg EXCEPT ![h] =
                          [ZeroImage EXCEPT !.path = p, !.size = s,
                              !.returnchan = h,
                              !.fd = [req |-> h, tree |-> "cache"]]]
                    /\ fdtab' = Opened(h, "cache", cachePath(p, s), NoFile)
                    /\ hpc' = [hpc EXCEPT ![h] = "serve"]
               ELSE /\ himg' = [himg EXCEPT ![h] =
                          [ZeroImage EXCEPT !.path = p, !.size = s,
                              !.returnchan = h]]
                    /\ fdtab' = fdtab
                    /\ hpc' = [hpc EXCEPT ![h] = "send"]
            /\ UNCHANGED <<served, closed>>
       ELSE /\ hpc' = [hpc EXCEPT ![h] = "done"]
            /\ served' = [served EXCEPT ![h] = [status |-> 200, data |-> NoData]]
            /\ UNCHANGED <<himg, closed, asked, fdtab>>
    /\ UNCHANGED <<fsvars, wvars, enq, sent, ops, hitAtDeq, fails, logged,
                   probe, auth, ref>>

\* lines 179-197: parse the request; an image path builds the Image request.
\* Invocations are numbered in the order in which they start.
Start(h, p, s) ==
    /\ hpc[h] = "idle"
    /\ \A g \in Handlers : g < h => hpc[g] # "idle"
    /\ IF imgre(p)
       THEN /\ himg' = [himg EXCEPT ![h] =
                  [ZeroImage EXCEPT !.path = p, !.size = s, !.returnchan = h]]
            /\ hpc' = [hpc EXCEPT ![h] = "send"]
            /\ asked' = [asked EXCEPT ![h] = [path |-> p, size |-> s]]
            /\ UNCHANGED <<served, closed>>
       ELSE /\ hpc' = [hpc EXCEPT ![h] = "done"]
            /\ served' = [served EXCEPT ![h] = [status |-> 200, data |-> NoData]]
            /\ UNCHANGED <<himg, closed, asked>>
    /\ UNCHANGED <<fsvars, fdtab, wvars, enq, sent, ops, hitAtDeq, fails,
                   logged, probe, auth, ref>>

\* a worker that takes the next request while it still holds one
ReadyAlways(w) == TRUE

\* the worker is at "for img := range reqimage"
Ready(w) == wpc[w] = "wait"

\* a branch test that sends every request through the cache
BranchCache(size) == "statcache"

\* line 295: if img.size == 0
Branch(size) == IF size = 0 THEN "open0" ELSE "statcache"

\* a worker whose img lives outside the loop and takes only the path, the
\* size and the return channel of the next request
SendKeepsResult(h, w) ==
    /\ hpc[h] = "send"
    /\ wpc[w] = "wait"
    /\ hpc' = [hpc EXCEPT ![h] = "recv"]
    /\ wimg' = [wimg EXCEPT ![w].path = himg[h].path,
                            ![w].size = himg[h].size,
                            ![w].returnchan = himg[h].returnchan]
    /\ wpc' = [wpc EXCEPT ![w] = IF himg[h].size = 0 THEN "open0" ELSE "statcache"]
    /\ enq' = Append(enq, h)
    /\ hitAtDeq' = [hitAtDeq EXCEPT ![h] =
           himg[h].size > 0 /\ cache[cachePath(himg[h].path, himg[h].size)].exists]
    /\ UNCHANGED <<himg, closed, served, logged, fsvars, fdtab, wcached, wthumb,
                   sent, ops, asked, fails, probe, auth, ref>>

\* line 199 and line 293: the rendezvous on the unbuffered channel reqimage;
\* line 295 picks the branch
Send(h, w) ==
    /\ hpc[h] = "send"
    /\ Ready(w)
    /\ hpc' = [hpc EXCEPT ![h] = "recv"]
    /\ wimg' = [wimg EXCEPT ![w] = himg[h]]
    /\ wpc' = [wpc EXCEPT ![w] = Branch(himg[h].size)]
    /\ enq' = Append(enq, h)
    /\ hitAtDeq' = [hitAtDeq EXCEPT ![h] =
           himg[h].size > 0 /\ cache[cachePath(himg[h].path, himg[h].size)].exists]
    /\ UNCHANGED <<himg, closed, served, logged, fsvars, fdtab, wcached, wthumb, sent,
                   ops, asked, fails, probe, auth, ref>>

\* ---------------------------------------------------------------- getImage
Req(w) == wimg[w].returnchan

Did(w, op) == ops' = [ops EXCEPT ![Req(w)] = @ \cup {op}]

\* history: the step op returned an error (failed) or did not
Fail(w, op, failed) ==
    fails' = IF failed THEN [fails EXCEPT ![Req(w)] = @ \cup {op}] ELSE fails

\* lines 295-300: size zero, open the source
Open0(w) ==
    /\ wpc[w] = "open0"
    /\ Did(w, "open0")
    /\ Fail(w, "open0", ~SrcExists(wimg[w].path))
    /\ IF SrcExists(wimg[w].path)
       THEN /\ fdtab' = Opened(Req(w), "src", wimg[w].path, src[wimg[w].path])
            /\ wimg' = [wimg EXCEPT ![w].fd = [req |-> Req(w), tree |-> "src"],
                                    ![w].err = NilErr]
            /\ wpc' = [wpc EXCEPT ![w] = "stat0"]
       ELSE /\ fdtab' = fdtab
            /\ wimg' = [wimg EXCEPT ![w].fd = NilFd, ![w].err = "NotFound"]
            /\ wpc' = [wpc EXCEPT ![w] = ErrTarget]
    /\ UNCHANGED <<hvars, fsvars, wcached, wthumb, enq, sent,
                   hitAtDeq, asked, probe, auth, ref>>

\* lines 301-306: size zero, stat the source
Stat0(w) ==
    /\ wpc[w] = "stat0"
    /\ Did(w, "stat0")
    /\ Fail(w, "stat0", ~SrcExists(wimg[w].path))
    /\ IF SrcExists(wimg[w].path)
       THEN /\ wimg' = [wimg EXCEPT ![w].err = NilErr,
                 ![w].modtime = SrcModTime(wimg[w].path, src[wimg[w].path])]
            /\ wpc' = [wpc EXCEPT ![w] = "publish"]
       ELSE /\ wimg' = [wimg EXCEPT ![w].err = "NotFound"]
            /\ wpc' = [wpc EXCEPT ![w] = ErrTarget]
    /\ UNCHANGED <<hvars, fsvars, fdtab, wcached, wthumb, enq, sent,
                   hitAtDeq, asked, probe, auth, ref>>

\* lines 308-310 and 340: compute the cache path and stat it; an error of
\* this os.Stat is the test for a miss, not a failure of the request
StatCache(w) ==
    /\ wpc[w] = "statcache"
    /\ Did(w, "statcache")
    /\ fails' = fails
    /\ wcached' = [wcached EXCEPT ![w] = cachePath(wimg[w].path, wimg[w].size)]
    /\ IF Exists(wcached'[w])
       THEN /\ wimg' = [wimg EXCEPT ![w].err = NilErr]
            /\ wpc' = [wpc EXCEPT ![w] = "opencache"]
       ELSE /\ wimg' = [wimg EXCEPT ![w].err = "NotFound"]
            /\ wpc' = [wpc EXCEPT ![w] = "mkdir"]
    /\ UNCHANGED <<hvars, fsvars, fdtab, wthumb, enq, sent,
                   hitAtDeq, asked, probe, auth, ref>>

\* line 312: os.MkdirAll, its error dropped
MkdirAll(w) ==
    /\ wpc[w] = "mkdir"
    /\ Did(w, "mkdir")
    /\ Fail(w, "mkdir", diskFull /\ Dir(wcached[w]) \notin dirs)
    /\ dirs' = IF diskFull THEN dirs ELSE dirs \cup DirChain(Dir(wcached[w]))
    /\ wpc' = [wpc EXCEPT ![w] = "opensrc"]
    /\ UNCHANGED <<hvars, src, cache, diskFull, fdtab, wimg, wcached, wthumb,
                   enq, sent,
                   hitAtDeq, asked, probe, auth, ref>>

\* lines 315-318: open the source to generate the cached file
OpenSrc(w) ==
    /\ wpc[w] = "opensrc"
    /\ Did(w, "opensrc")
    /\ Fail(w, "opensrc", ~SrcExists(wimg[w].path))
    /\ IF SrcExists(wimg[w].path)
       THEN /\ fdtab' = Opened(Req(w), "src", wimg[w].path, src[wimg[w].path])
            /\ wimg' = [wimg EXCEPT ![w].fd = [req |-> Req(w), tree |-> "src"],
                                    ![w].err = NilErr]
            /\ wpc' = [wpc EXCEPT ![w] = "decode"]
       ELSE /\ fdtab' = fdtab
            /\ wimg' = [wimg EXCEPT ![w].fd = NilFd, ![w].err = "NotFound"]
            /\ wpc' = [wpc EXCEPT ![w] = ErrTarget]
    /\ UNCHANGED <<hvars, fsvars, wcached, wthumb, enq, sent,
                   hitAtDeq, asked, probe, auth, ref>>

\* a decoder that accepts any content
jpegDecodeAny(f) == TRUE

\* line 322: jpeg.Decode returns no error for the content f
jpegDecode(f) == f.kind = "jpeg"

\* lines 320-330: jpeg.Decode, close the source, resize.Thumbnail
Decode(w) ==
    /\ wpc[w] = "decode"
    /\ Did(w, "decode")
    /\ Fail(w, "decode", ~jpegDecode(fdtab[wimg[w].fd.req].src.snap))
    /\ IF jpegDecode(fdtab[wimg[w].fd.req].src.snap)
       THEN /\ wimg' = [wimg EXCEPT ![w].err = NilErr]
            /\ fdtab' = Closed(wimg[w].fd)
            /\ wthumb' = [wthumb EXCEPT ![w] =
                  [path |-> wimg[w].path,
                   ver |-> fdtab[wimg[w].fd.req].src.snap.ver,
                   size |-> wimg[w].size, whole |-> TRUE]]
            /\ wpc' = [wpc EXCEPT ![w] = "create"]
       ELSE /\ wimg' = [wimg EXCEPT ![w].err = "DecodeError"]
            /\ fdtab' = fdtab
            /\ wthumb' = wthumb
            /\ wpc' = [wpc EXCEPT ![w] = ErrTarget]
    /\ UNCHANGED <<hvars, fsvars, wcached, enq, sent,
                   hitAtDeq, asked, probe, auth, ref>>

\* lines 332-335: os.Create makes the cache file, or truncates the one there
Create(w) ==
    /\ wpc[w] = "create"
    /\ Did(w, "create")
    /\ Fail(w, "create", Dir(wcached[w]) \notin dirs)
    /\ IF Dir(wcached[w]) \in dirs
       THEN /\ cache' = [cache EXCEPT ![wcached[w]] =
                  [exists |-> TRUE, data |-> [wthumb[w] EXCEPT !.whole = FALSE],
                   gen |-> @.gen + 1, first |-> @.first]]
            /\ fdtab' = Opened(Req(w), "cache", wcached[w], NoFile)
            /\ wimg' = [wimg EXCEPT ![w].fd = [req |-> Req(w), tree |-> "cache"],
                                    ![w].err = NilErr]
            /\ wpc' = [wpc EXCEPT ![w] = "encode"]
       ELSE /\ cache' = cache
            /\ fdtab' = fdtab
            /\ wimg' = [wimg EXCEPT ![w].fd = NilFd, ![w].err = "IOError"]
            /\ wpc' = [wpc EXCEPT ![w] = ErrTarget]
    /\ UNCHANGED <<hvars, src, dirs, diskFull, wcached, wthumb, enq, sent,
                   hitAtDeq, asked, probe, auth, ref>>

\* a write that removes the cache file when the thumbnail could not be
\* written whole
EncodeRemovesPartial(w) ==
    /\ wpc[w] = "encode"
    /\ Did(w, "encode")
    /\ Fail(w, "encode", diskFull)
    /\ LET c == fdtab[wimg[w].fd.req].cache.name
           d == [wthumb[w] EXCEPT !.whole = TRUE]
       IN cache' = IF diskFull
                   THEN [cache EXCEPT ![c].exists = FALSE, ![c].data = NoData]
                   ELSE [cache EXCEPT ![c].data = d,
                            ![c].first = IF cache[c].gen = 1 THEN d ELSE @]
    /\ wimg' = [wimg EXCEPT ![w].modtime = Now]
    /\ wpc' = [wpc EXCEPT ![w] = "publish"]
    /\ UNCHANGED <<hvars, src, dirs, diskFull, fdtab, wcached, wthumb, enq, sent,
                   hitAtDeq, asked, probe, auth, ref>>

\* lines 337-339: jpeg.Encode through img.fd, its error dropped, then
\* time.Now(); on a full disk only part of the bytes reach the file
Encode(w) ==
    /\ wpc[w] = "encode"
    /\ Did(w, "encode")
    /\ Fail(w, "encode", diskFull)
    /\ LET c == fdtab[wimg[w].fd.req].cache.name
           d == [wthumb[w] EXCEPT !.whole = ~diskFull]
       IN cache' = [cache EXCEPT ![c].data = d,
                       ![c].first = IF cache[c].gen = 1 THEN d ELSE @]
    /\ wimg' = [wimg EXCEPT ![w].modtime = Now]
    /\ wpc' = [wpc EXCEPT ![w] = "publish"]
    /\ UNCHANGED <<hvars, src, dirs, diskFull, fdtab, wcached, wthumb, enq, sent,
                   hitAtDeq, asked, probe, auth, ref>>

\* lines 341-345: the cached file exists, open it
OpenCache(w) ==
    /\ wpc[w] = "opencache"
    /\ Did(w, "opencache")
    /\ Fail(w, "opencache", ~cache[wcached[w]].exists)
    /\ IF cache[wcached[w]].exists
       THEN /\ fdtab' = Opened(Req(w), "cache", wcached[w], NoFile)
            /\ wimg' = [wimg EXCEPT ![w].fd = [req |-> Req(w), tree |-> "cache"],
                                    ![w].err = NilErr]
            /\ wpc' = [wpc EXCEPT ![w] = "statcache2"]
       ELSE /\ fdtab' = fdtab
            /\ wimg' = [wimg EXCEPT ![w].fd = NilFd, ![w].err = "NotFound"]
            /\ wpc' = [wpc EXCEPT ![w] = ErrTarget]
    /\ UNCHANGED <<hvars, fsvars, wcached, wthumb, enq, sent,
                   hitAtDeq, asked, probe, auth, ref>>

\* lines 346-350: stat the cached file for its modification time
StatCache2(w) ==
    /\ wpc[w] = "statcache2"
    /\ Did(w, "statcache2")
    /\ Fail(w, "statcache2", ~cache[wcached[w]].exists)
    /\ IF cache[wcached[w]].exists
       THEN /\ wimg' = [wimg EXCEPT ![w].err = NilErr,
                                    ![w].modtime = CacheModTime(wcached[w])]
            /\ wpc' = [wpc EXCEPT ![w] = "publish"]
       ELSE /\ wimg' = [wimg EXCEPT ![w].err = "NotFound"]
            /\ wpc' = [wpc EXCEPT ![w] = ErrTarget]
    /\ UNCHANGED <<hvars, fsvars, fdtab, wcached, wthumb, enq, sent,
                   hitAtDeq, asked, probe, auth, ref>>

\* a send that does not wait for the request to reach the publish label
CanPublishEarly(w, h) == wpc[w] # "wait" /\ wimg[w].returnchan = h

\* line 353: the worker is at the send on h's return channel
CanPublish(w, h) == wpc[w] = "publish" /\ wimg[w].returnchan = h

\* a worker that sends the result a second time
AfterPublishAgain == "publish"

\* line 354: after the send the loop waits for the next request
AfterPublish == "wait"

\* line 353 and line 201: the rendezvous on the request's return channel;
\* a send on a closed channel panics
Publish(w, h) ==
    /\ CanPublish(w, h)
    /\ IF closed[h]
       THEN /\ wpc' = [wpc EXCEPT ![w] = "panic"]
            /\ UNCHANGED <<hpc, himg, sent>>
       ELSE /\ hpc[h] = "recv"
            /\ himg' = [himg EXCEPT ![h] = wimg[w]]
            /\ hpc' = [hpc EXCEPT ![h] = "serve"]
            /\ wpc' = [wpc EXCEPT ![w] = AfterPublish]
            /\ sent' = [sent EXCEPT ![h] = @ + 1]
    /\ UNCHANGED <<closed, served, logged, fsvars, fdtab, wimg, wcached, wthumb, enq,
                   ops, hitAtDeq, asked, fails, probe, auth, ref>>

\* the variable err of serveGallery (line 180) when line 203 prints it: the
\* result of strconv.ParseUint (line 187), nil for the widths requested here
HandlerErr == NilErr

\* lines 202-210 and the deferred close of line 197: a result with an error
\* makes line 203 print the handler's own err; http.ServeContent
\* streams from img.fd (a nil *os.File cannot seek and ServeContent answers
\* 500), img.fd is closed, and on return the return channel is closed and the
\* invocation's locals are gone
Serve(h) ==
    /\ hpc[h] = "serve"
    /\ served' = [served EXCEPT ![h] =
           IF himg[h].fd = NilFd THEN [status |-> 500, data |-> NoData]
           ELSE [status |-> 200, data |-> ReadFd(himg[h].fd)]]
    /\ logged' = [logged EXCEPT ![h] =
           IF himg[h].err # NilErr THEN @ \cup {HandlerErr} ELSE @]
    /\ fdtab' = Closed(himg[h].fd)
    /\ closed' = [closed EXCEPT ![h] = TRUE]
    /\ hpc' = [hpc EXCEPT ![h] = "done"]
    /\ himg' = [himg EXCEPT ![h] = ZeroImage]
    /\ ops' = [ops EXCEPT ![h] = {}]
    /\ hitAtDeq' = [hitAtDeq EXCEPT ![h] = FALSE]
    /\ asked' = [asked EXCEPT ![h] = NoAsk]
    /\ fails' = [fails EXCEPT ![h] = {}]
    /\ UNCHANGED <<fsvars, wvars, enq, sent, probe, auth, ref>>

\* ------------------------------------------------------------ environment
\* the gallery owner replaces a file by new content
WriteSource(p, k) ==
    /\ src[p].ver = "v1"
    /\ src' = [src EXCEPT ![p] = [kind |-> k, ver |-> "v2"]]
    /\ UNCHANGED <<cache, dirs, diskFull, fdtab, hvars, wvars, histvars, probe, auth, ref>>

\* the gallery owner deletes a file
RemoveSource(p) ==
    /\ SrcExists(p)
    /\ src' = [src EXCEPT ![p] = NoFile]
    /\ UNCHANGED <<cache, dirs, diskFull, fdtab, hvars, wvars, histvars, probe, auth, ref>>

\* the cache file system runs out of space
DiskFills ==
    /\ ~diskFull
    /\ diskFull' = TRUE
    /\ UNCHANGED <<src, cache, dirs, fdtab, hvars, wvars, histvars, probe, auth, ref>>

WorkerStep(w) ==
    \/ Open0(w)
    \/ Stat0(w)
    \/ StatCache(w)
    \/ MkdirAll(w)
    \/ OpenSrc(w)
    \/ Decode(w)
    \/ Create(w)
    \/ Encode(w)
    \/ OpenCache(w)
    \/ StatCache2(w)

Next ==
    \/ \E h \in Handlers, p \in ReqPaths, s \in Sizes : Start(h, p, s)
    \/ \E h \in Handlers, w \in Workers : Send(h, w)
    \/ \E w \in Workers : WorkerStep(w)
    \/ \E w \in Workers, h \in Handlers : Publish(w, h)
    \/ \E h \in Handlers : Serve(h)
    \/ \E p \in ImgPaths, k \in SrcKinds : WriteSource(p, k)
    \/ \E p \in ImgPaths : RemoveSource(p)
    \/ DiskFills

Spec == Init /\ [][Next]_vars

\* ------------------------------------------------------ liveness (fairness)
\* The Go scheduler runs every runnable goroutine, so the worker takes its
\* next step and a rendezvous both sides are ready for happens; the runtime
\* queues the senders blocked on reqimage, so a sender that is ready again
\* and again is served.  Requests need not arrive and the gallery owner need
\* not act.
NextLive ==
    \/ \E h \in Handlers, p \in ReqPaths, s \in Sizes : Start(h, p, s)
    \/ \E h \in Handlers, w \in Workers : Send(h, w)
    \/ \E w \in Workers : WorkerStep(w)
    \/ \E w \in Workers, h \in Handlers : Publish(w, h)
    \/ \E h \in Handlers : Serve(h)
    \/ \E p \in ImgPaths : RemoveSource(p)

Fairness ==
    /\ \A w \in Workers : WF_vars(WorkerStep(w))
    /\ \A h \in Handlers : WF_vars(\E w \in Workers : Publish(w, h))
    /\ \A h \in Handlers : SF_vars(\E w \in Workers : Send(h, w))

SpecLive == Init /\ [][NextLive]_vars /\ Fairness

\* ----------------------------------------------------- cachePath as a function
PathChars == {"a", "_", "1"}

\* all strings over PathChars of length at most n
RECURSIVE StringsUpTo(_)
StringsUpTo(n) ==
    IF n = 0 THEN {<<>>}
    ELSE LET S == StringsUpTo(n - 1)
         IN S \cup {Append(t, ch) : t \in S, ch \in PathChars}

ProbePaths == StringsUpTo(MaxPathLen)
ProbeSizes == 1..MaxProbeSize

InitPath ==
    /\ src = [p \in ImgPaths |-> NoFile]
    /\ diskFull = FALSE
    /\ InitRest
    /\ probe \in {[NoProbe EXCEPT !.p1 = p1, !.s1 = s1, !.p2 = p2, !.s2 = s2] :
                    p1 \in ProbePaths, s1 \in ProbeSizes,
                    p2 \in ProbePaths, s2 \in ProbeSizes}
    /\ auth = NoAuth
    /\ ref = NoRef

\* line 308 applied to the two inputs
ComputePaths ==
    /\ ~probe.done
    /\ probe' = [probe EXCEPT !.c1 = cachePath(probe.p1, probe.s1),
                              !.c2 = cachePath(probe.p2, probe.s2),
                              !.done = TRUE]
    /\ UNCHANGED <<fsvars, fdtab, hvars, wvars, histvars, auth, ref>>

NextPath == ComputePaths

SpecPath == InitPath /\ [][NextPath]_vars

\* ------------------------------------------------------------ authenticate
\* the alphabet of base64.StdEncoding
B64Alphabet ==
    <<"A", "B", "C", "D", "E", "F", "G", "H", "I", "J", "K", "L", "M",
      "N", "O", "P", "Q", "R", "S", "T", "U", "V", "W", "X", "Y", "Z",
      "a", "b", "c", "d", "e", "f", "g", "h", "i", "j", "k", "l", "m",
      "n", "o", "p", "q", "r", "s", "t", "u", "v", "w", "x", "y", "z",
      "0", "1", "2", "3", "4", "5", "6", "7", "8", "9", "+", "/">>

IsB64(c) == \E i \in 1..Len(B64Alphabet) : B64Alphabet[i] = c

\* the six bits a character of the alphabet stands for
B64Val(c) ==
    IF IsB64(c)
    THEN (CHOOSE i \in 1..Len(B64Alphabet) : B64Alphabet[i] = c) - 1
    ELSE 0

\* one group of four characters, with "=" padding, as up to three bytes
B64Quantum(g) ==
    LET pad == IF g[4] = "=" THEN (IF g[3] = "=" THEN 2 ELSE 1) ELSE 0
        n == B64Val(g[1]) * 262144 + B64Val(g[2]) * 4096
               + (IF pad < 2 THEN B64Val(g[3]) ELSE 0) * 64
               + (IF pad < 1 THEN B64Val(g[4]) ELSE 0)
        bytes == <<n \div 65536, (n \div 256) % 256, n % 256>>
    IN [ok |-> \A i \in 1..(4 - pad) : IsB64(g[i]),
        bytes |-> SubSeq(bytes, 1, 3 - pad)]

RECURSIVE DecodeString(_)
\* base64.StdEncoding.DecodeString: groups of four characters, padding only
\* in the last group; anything else is an error
DecodeString(s) ==
    IF s = <<>> THEN [ok |-> TRUE, bytes |-> <<>>]
    ELSE IF Len(s) < 4 THEN [ok |-> FALSE, bytes |-> <<>>]
    ELSE LET q == B64Quantum(SubSeq(s, 1, 4))
             r == DecodeString(SubSeq(s, 5, Len(s)))
         IN IF q.ok /\ r.ok /\ (s[4] = "=" => Len(s) = 4)
            THEN [ok |-> TRUE, bytes |-> q.bytes \o r.bytes]
            ELSE [ok |-> FALSE, bytes |-> <<>>]

\* the bytes of the characters used in credentials
Ascii == ("a" :> 97) @@ ("b" :> 98) @@ ("c" :> 99) @@ (":" :> 58)

Bytes(str) == [i \in 1..Len(str) |-> Ascii[str[i]]]

\* strings.Index(b, c) for a one-byte c: the offset of its first occurrence
\* or -1
Index(b, c) ==
    IF \E i \in 1..Len(b) : b[i] = c
    THEN (CHOOSE i \in 1..Len(b) :
             b[i] = c /\ \A j \in 1..(i - 1) : b[j] # c) - 1
    ELSE -1

\* conf.Users: one user, a, with password b
Users == Bytes(<<"a">>) :> Bytes(<<"b">>)

BasicScheme == <<"B", "a", "s", "i", "c">>

\* the values of the Authorization header requests are made with, each with
\* the case it stands for
AuthHeaders ==
    { [text |-> <<>>,
       kind |-> "missing"],
      [text |-> <<"B", "a", "s", "i", "c">>,
       kind |-> "short"],
      [text |-> <<"B", "a", "s", "i", "c", " ", "Y">>,
       kind |-> "short"],
      [text |-> <<"B", "e", "a", "r", "e", "r", " ", "Y", "T", "p", "i">>,
       kind |-> "nonbasic"],
      [text |-> <<"b", "a", "s", "i", "c", " ", "Y", "T", "p", "i">>,
       kind |-> "nonbasic"],
      [text |-> <<"B", "a", "s", "i", "c", " ", "!", "!", "!", "!">>,
       kind |-> "badbase64"],
      [text |-> <<"B", "a", "s", "i", "c", " ", "Y", "Q">>,
       kind |-> "badbase64"],
      [text |-> <<"B", "a", "s", "i", "c", " ", "Y", "W", "I", "=">>,
       kind |-> "nocolon"],
      [text |-> <<"B", "a", "s", "i", "c", " ", "Y", "W", "J", "j">>,
       kind |-> "nocolon"],
      [text |-> <<"B", "a", "s", "i", "c", " ", "Y", "z", "p", "i">>,
       kind |-> "unknownuser"],
      [text |-> <<"B", "a", "s", "i", "c", " ", "O", "g", "=", "=">>,
       kind |-> "unknownuser"],
      [text |-> <<"B", "a", "s", "i", "c", " ", "Y", "T", "p", "j">>,
       kind |-> "wrongpassword"],
      [text |-> <<"B", "a", "s", "i", "c", " ", "Y", "T", "p", "i", "O", "m", "M", "=">>,
       kind |-> "wrongpassword"],
      [text |-> <<"B", "a", "s", "i", "c", " ", "Y", "T", "o", "=">>,
       kind |-> "wrongpassword"],
      [text |-> <<"B", "a", "s", "i", "c", " ", "Y", "T", "p", "i">>,
       kind |-> "valid"] }

\* a request reaches the closure authenticate returned, for either value of
\* conf.Authenticate
InitAuth ==
    /\ src = [p \in ImgPaths |-> NoFile]
    /\ diskFull = FALSE
    /\ InitRest
    /\ probe = NoProbe
    /\ auth \in {[NoAuth EXCEPT !.enabled = e, !.hdr = hd, !.pc = "enter"] :
                   e \in BOOLEAN, hd \in AuthHeaders}
    /\ ref = NoRef

\* pass(w, r): the wrapped handler runs and writes its response
Pass(a) == [a EXCEPT !.calls = @ + 1, !.out = Append(@, "pass")]

\* lines 111-117: the security headers; without authentication the wrapped
\* handler is called, and the closure goes on
AuthEnter ==
    /\ auth.pc = "enter"
    /\ auth' = [(IF ~auth.enabled THEN Pass(auth) ELSE auth) EXCEPT
                   !.pc = "header"]
    /\ UNCHANGED <<fsvars, fdtab, hvars, wvars, histvars, probe, ref>>

\* lines 125-128: the header is shorter than 8 bytes or does not start with
\* Basic
AuthHeader ==
    /\ auth.pc = "header"
    /\ auth' = [auth EXCEPT !.pc =
           IF Len(auth.hdr.text) < 8 \/ SubSeq(auth.hdr.text, 1, 5) # BasicScheme
           THEN "unauthorized" ELSE "decode"]
    /\ UNCHANGED <<fsvars, fdtab, hvars, wvars, histvars, probe, ref>>

\* lines 129-133: decode the header from its seventh byte on
AuthDecode ==
    /\ auth.pc = "decode"
    /\ LET d == DecodeString(SubSeq(auth.hdr.text, 7, Len(auth.hdr.text)))
       IN auth' = IF d.ok
                  THEN [auth EXCEPT !.authbytes = d.bytes, !.pc = "split"]
                  ELSE [auth EXCEPT !.pc = "unauthorized"]
    /\ UNCHANGED <<fsvars, fdtab, hvars, wvars, histvars, probe, ref>>

\* lines 134-136: slice the decoded string at the first colon; a slice
\* bound of -1 is a run-time panic
AuthSplit ==
    /\ auth.pc = "split"
    /\ LET k == Index(auth.authbytes, Ascii[":"])
       IN auth' = IF k < 0
                  THEN [auth EXCEPT !.pc = "panic"]
                  ELSE [auth EXCEPT
                           !.username = SubSeq(auth.authbytes, 1, k),
                           !.password = SubSeq(auth.authbytes, k + 2,
                                               Len(auth.authbytes)),
                           !.pc = "lookup"]
    /\ UNCHANGED <<fsvars, fdtab, hvars, wvars, histvars, probe, ref>>

\* lines 137-145: a listed user with the configured password calls the
\* wrapped handler; every branch then reaches the unauthorized label
AuthLookup ==
    /\ auth.pc = "lookup"
    /\ auth' = [(IF /\ auth.username \in DOMAIN Users
                     /\ auth.password = Users[auth.username]
                  THEN Pass(auth) ELSE auth) EXCEPT !.pc = "unauthorized"]
    /\ UNCHANGED <<fsvars, fdtab, hvars, wvars, histvars, probe, ref>>

\* lines 146-151: the 401 response
AuthUnauthorized ==
    /\ auth.pc = "unauthorized"
    /\ auth' = [auth EXCEPT
           !.out = @ \o <<"Cache-Control", "WWW-Authenticate", "401",
                          "please authenticate">>,
           !.pc = "done"]
    /\ UNCHANGED <<fsvars, fdtab, hvars, wvars, histvars, probe, ref>>

NextAuth ==
    \/ AuthEnter
    \/ AuthHeader
    \/ AuthDecode
    \/ AuthSplit
    \/ AuthLookup
    \/ AuthUnauthorized

SpecAuth == InitAuth /\ [][NextAuth]_vars

\* ------------------------------------------- the earlier getImage(path, size)
\* getImage(path, size) (fd, modtime, err) of the version that the handler
\* called directly, run to its end on the present file system: the values
\* it returns, the cache tree and the directories it leaves, and whether it
\* ended the process with log.Fatal (os.Create failed).  os.MkdirAll and
\* jpeg.Encode have their errors dropped.
getImage(path, size) ==
    LET cachedPath == cachePath(path, size)
        made == IF diskFull THEN dirs ELSE dirs \cup DirChain(Dir(cachedPath))
        m == [path |-> path, ver |-> src[path].ver, size |-> size,
              whole |-> ~diskFull]
        Ret(fd, modtime, err, files, d, fatal) ==
            [req |-> 0, fd |-> fd, modtime |-> modtime, err |-> err,
             files |-> CacheTree(files), dirs |-> d, fatal |-> fatal]
        srcfd == [tree |-> "src", name |-> path]
        cachefd == [tree |-> "cache", name |-> cachedPath]
    IN IF size = 0
       THEN IF ~SrcExists(path)
            THEN Ret(NilFile, ZeroTime, "NotFound", cache, dirs, FALSE)
            ELSE Ret(srcfd, SrcModTime(path, src[path]), NilErr, cache, dirs,
                     FALSE)
       ELSE IF ~Exists(cachedPath)
            THEN IF ~SrcExists(path)
                 THEN Ret(NilFile, ZeroTime, "NotFound", cache, made, FALSE)
                 ELSE IF ~jpegDecode(src[path])
                 THEN Ret(srcfd, ZeroTime, "DecodeError", cache, made, FALSE)
                 ELSE IF Dir(cachedPath) \notin made
                 THEN Ret(NilFile, ZeroTime, "IOError", cache, made, TRUE)
                 ELSE Ret(cachefd, Now, NilErr,
                          [cache EXCEPT ![cachedPath].exists = TRUE,
                                        ![cachedPath].data = m],
                          made, FALSE)
            ELSE Ret(cachefd, CacheModTime(cachedPath), NilErr, cache, dirs,
                     FALSE)

\* the request the earlier getImage was called for is still with the worker
Pending == ref.req # 0 /\ hpc[ref.req] \in {"send", "recv"}

\* the earlier getImage is called for the request handler h is about to
\* send, on the file system the worker will find
CallRef(h) ==
    /\ hpc[h] = "send"
    /\ ~Pending
    /\ ref' = [getImage(himg[h].path, himg[h].size) EXCEPT !.req = h]
    /\ UNCHANGED <<fsvars, fdtab, hvars, wvars, histvars, probe, auth>>

\* requests are processed one at a time: the worker takes the request the
\* earlier getImage was called for, and the file system changes only between
\* two requests
NextRef ==
    \/ \E h \in Handlers, p \in ReqPaths, s \in Sizes : Start(h, p, s)
    \/ \E h \in Handlers : CallRef(h)
    \/ \E h \in Handlers, w \in Workers : ref.req = h /\ Send(h, w)
    \/ \E w \in Workers : WorkerStep(w)
    \/ \E w \in Workers, h \in Handlers : Publish(w, h)
    \/ \E h \in Handlers : Serve(h)
    \/ \E p \in ImgPaths, k \in SrcKinds : ~Pending /\ WriteSource(p, k)
    \/ \E p \in ImgPaths : ~Pending /\ RemoveSource(p)
    \/ ~Pending /\ DiskFills

SpecRef == Init /\ [][NextRef]_vars

\* ===================================================================== claims
\* the steps of getImage between taking a request and publishing it
SectionPcs ==
    {"open0", "stat0", "statcache", "mkdir", "opensrc", "decode", "create",
     "encode", "opencache", "statcache2"}

\* the steps that generate a cached file from the source
GenOps == {"mkdir", "opensrc", "decode", "create", "encode"}

InSection(h) == \E w \in Workers : wpc[w] \in SectionPcs /\ Req(w) = h

HeldByWorker(h) == \E w \in Workers : wpc[w] # "wait" /\ Req(w) = h

Enqueued(h) == \E i \in 1..Len(enq) : enq[i] = h

\* processing of h's request has begun
Began(h) == ops[h] # {} \/ hpc[h] \in {"serve", "done"}

\* C1: whatever the number of handlers running, at most one request is in
\* the worker's processing section at any time, and at most one request has
\* been handed to the worker and not been answered.
C1_OneInSection ==
    /\ Cardinality({h \in Handlers : InSection(h)}) <= 1
    /\ Cardinality({w \in Workers : wpc[w] \in SectionPcs}) <= 1
    /\ Cardinality({h \in Handlers : hpc[h] = "recv"}) <= 1

\* a request is being processed while another handler is blocked on reqimage
C1_Witness ==
    \E h1, h2 \in Handlers :
        h1 # h2 /\ InSection(h1) /\ hpc[h2] = "send" /\ "create" \in ops[h1]

\* C2: for every request the intake channel accepted the worker sends exactly
\* one result on its return channel: never more than one, and one as soon as
\* the worker no longer holds the request, whatever step failed.
C2_ExactlyOneResult ==
    \A h \in Handlers :
        /\ sent[h] <= 1
        /\ (Enqueued(h) /\ ~HeldByWorker(h)) => sent[h] = 1
        /\ hpc[h] = "serve" => sent[h] = 1

\* a request that failed has been answered, and the worker is done with it
C2_Witness ==
    \E h \in Handlers :
        /\ hpc[h] = "serve" /\ sent[h] = 1 /\ ~HeldByWorker(h)
        /\ himg[h].err = "DecodeError"

\* C3: no error ends the worker's loop: under fair scheduling the worker
\* always returns to waiting on the intake channel, and every handler that
\* reaches the send on reqimage eventually receives its result.
C3_AlwaysAnswered ==
    /\ \A w \in Workers : (wpc[w] # "wait") ~> (wpc[w] = "wait")
    /\ \A h \in Handlers : (hpc[h] = "send") ~> (hpc[h] = "serve")

\* a request failed, and the worker is already processing the next one
C3_Witness ==
    \E h1, h2 \in Handlers :
        /\ hpc[h1] = "serve" /\ himg[h1].err # NilErr
        /\ hpc[h2] = "recv" /\ InSection(h2)

\* C4: requests are served in the order in which reqimage accepted them: if A
\* was accepted before B, A's result has been published before the
\* processing of B begins.
C4_Fifo ==
    \A i, j \in 1..Len(enq) :
        (i < j /\ Began(enq[j])) => sent[enq[i]] = 1

\* a second request is being processed
C4_Witness ==
    /\ Len(enq) = NumHandlers
    /\ InSection(enq[NumHandlers])
    /\ \A i \in 1..(NumHandlers - 1) : sent[enq[i]] = 1

\* the result img was computed for the request (path, size) of handler h
ResultFor(h, img) ==
    /\ img.path = asked[h].path
    /\ img.size = asked[h].size
    /\ img.returnchan = h
    /\ img.fd = NilFd => img.err # NilErr
    /\ img.fd # NilFd =>
          /\ img.fd.req = h
          /\ img.fd.tree = "src" => fdtab[h].src.name = asked[h].path
          /\ img.fd.tree = "cache" =>
                /\ fdtab[h].cache.name = cachePath(asked[h].path, asked[h].size)
                /\ ReadFd(img.fd).path = asked[h].path
                /\ ReadFd(img.fd).size = asked[h].size

\* C5: a handler that submitted a request has streamed nothing and closed
\* nothing until the worker has published on its return channel, and what it
\* receives is the result computed for its own path and size.
C5_OwnResult ==
    \A h \in Handlers :
        /\ hpc[h] \in {"send", "recv"} =>
              /\ served[h] = NoResponse
              /\ ~closed[h]
              /\ \A t \in Trees : fdtab[h][t].closes <= fdtab[h][t].opens
        /\ hpc[h] = "serve" => (sent[h] = 1 /\ ResultFor(h, himg[h]))

\* two requests for different sizes were in flight together and the second
\* has received its thumbnail
C5_Witness ==
    \E h1, h2 \in Handlers :
        /\ h1 # h2 /\ hpc[h1] = "serve" /\ hpc[h2] = "serve"
        /\ asked[h1].size # asked[h2].size
        /\ himg[h1].fd.tree = "cache" /\ himg[h2].fd.tree = "cache"

\* the cache file c is between os.Create and the end of jpeg.Encode
BeingWritten(c) == \E w \in Workers : wpc[w] = "encode" /\ wcached[w] = c

\* C6: under concurrent submission, also of requests for the same key, the
\* cache tree holds no partially written file once its write is over, and no
\* request is handed a cache file whose content is not whole.
C6_NoPartialCacheFile ==
    /\ \A c \in CachePaths :
          (cache[c].exists /\ ~BeingWritten(c)) => cache[c].data.whole
    /\ \A h \in Handlers :
          (hpc[h] = "serve" /\ himg[h].fd.tree = "cache") =>
              ReadFd(himg[h].fd).whole

\* the cache path of the request handler h is running
Key(h) == cachePath(asked[h].path, asked[h].size)

\* h holds an open handle to its own cache file and no error
ServedFromCache(h) ==
    /\ himg[h].err = NilErr
    /\ himg[h].fd = [req |-> h, tree |-> "cache"]
    /\ fdtab[h].cache.name = Key(h)

\* C7: for a size > 0 and no cache file, a request that is published without
\* error has created the cache file at cachePath(path, size); a later
\* identical request performs no source open, decode, resize, create or
\* write and gets a handle to that same file, whose bytes are those the
\* first request wrote.
C7_SecondRequestHits ==
    \A h \in Handlers :
        (hpc[h] \in {"recv", "serve"} /\ asked[h].size > 0) =>
            /\ (~hitAtDeq[h] /\ hpc[h] = "serve" /\ himg[h].err = NilErr) =>
                  /\ GenOps \subseteq ops[h]
                  /\ cache[Key(h)].exists
                  /\ cache[Key(h)].gen = 1
                  /\ ServedFromCache(h)
            /\ hitAtDeq[h] =>
                  /\ ops[h] \cap (GenOps \cup {"open0", "stat0"}) = {}
                  /\ fdtab[h].src.opens = 0
                  /\ hpc[h] = "serve" =>
                        /\ ServedFromCache(h)
                        /\ ReadFd(himg[h].fd) = cache[Key(h)].first

\* a first request has written its thumbnail and a second identical request
\* has been answered from the cache file
C7_Witness ==
    \E h \in Handlers :
        /\ hpc[h] = "serve" /\ hitAtDeq[h] /\ asked[h].size = ThumbWidth
        /\ cache[Key(h)].first.whole
        /\ ops[h] = {"statcache", "opencache", "statcache2"}

\* C8: a request with size 0 is answered with a handle to the source file
\* itself and the source's modification time (or with the error of opening
\* or stating the source), whatever cache files exist for the path, and the
\* worker performs no step on the cache tree for it.
C8_SizeZeroServesSource ==
    \A h \in Handlers :
        (hpc[h] \in {"recv", "serve"} /\ asked[h].size = 0) =>
            /\ ops[h] \subseteq {"open0", "stat0"}
            /\ fdtab[h].cache.opens = 0
            /\ hpc[h] = "serve" =>
                  /\ himg[h].fd = NilFd => himg[h].err # NilErr
                  /\ himg[h].fd # NilFd =>
                        /\ himg[h].fd = [req |-> h, tree |-> "src"]
                        /\ fdtab[h].src.name = asked[h].path
                        /\ ReadFd(himg[h].fd).size = 0
                        /\ ReadFd(himg[h].fd).path = asked[h].path
                  /\ himg[h].err = NilErr =>
                        /\ himg[h].fd # NilFd
                        /\ himg[h].modtime.of = "src"
                        /\ himg[h].modtime.name = asked[h].path

\* a size 0 request was answered with the source while a thumbnail of the
\* same path is cached
C8_Witness ==
    \E h \in Handlers :
        /\ hpc[h] = "serve" /\ asked[h].size = 0 /\ himg[h].err = NilErr
        /\ himg[h].fd.tree = "src"
        /\ cache[cachePath(asked[h].path, ThumbWidth)].exists

\* C9: once the cache file of (path, size) exists, every later request for
\* (path, size) is answered from it without opening or decoding the source,
\* even after the source was replaced or deleted, and the cache file is
\* never generated again.
C9_CacheNeverInvalidated ==
    /\ \A c \in CachePaths : cache[c].gen <= 1
    /\ \A h \in Handlers :
          hitAtDeq[h] =>
              /\ ops[h] \cap GenOps = {}
              /\ hpc[h] = "serve" =>
                    /\ ServedFromCache(h)
                    /\ ReadFd(himg[h].fd) = cache[Key(h)].data
                    /\ himg[h].modtime = CacheModTime(Key(h))

\* a request was answered from a cache file made from content the source no
\* longer has
C9_Witness ==
    \E h \in Handlers :
        /\ hpc[h] = "serve" /\ hitAtDeq[h]
        /\ src[asked[h].path].ver = "v2"
        /\ cache[Key(h)].data.ver = "v1"

\* C10: cachePath is injective: equal cache paths come from equal paths and
\* equal sizes, also for paths that contain underscores and digits.
C10_Injective ==
    (probe.done /\ probe.c1 = probe.c2) =>
        (probe.p1 = probe.p2 /\ probe.s1 = probe.s2)

\* two equal cache paths of a path made of an underscore and a digit
C10_Witness ==
    /\ probe.done
    /\ probe.c1 = probe.c2
    /\ probe.p1 = <<"_", "1">>
    /\ probe.s1 = MaxProbeSize

\* C11: a request with size > 0 whose cache file is missing and whose source
\* file does not exist when the worker opens it is published with the
\* NotFound error and a nil handle, and the request creates no cache file:
\* the failed open goes to the publish label and leaves the cache tree alone.
C11_MissingSource ==
    /\ [][\A w \in Workers :
            (wpc[w] = "opensrc" /\ wpc'[w] # "opensrc"
                /\ src[wimg[w].path] = NoFile) =>
               /\ "opensrc" \in fails'[Req(w)]
               /\ wimg'[w].err = "NotFound"
               /\ wimg'[w].fd = NilFd
               /\ wpc'[w] = "publish"
               /\ cache' = cache]_vars
    /\ [](\A h \in Handlers :
            (hpc[h] = "serve" /\ "opensrc" \in fails[h]) =>
               /\ asked[h].size > 0
               /\ himg[h].err = "NotFound"
               /\ himg[h].fd = NilFd
               /\ ops[h] \cap {"decode", "create", "encode"} = {}
               /\ fdtab[h].cache.opens = 0
               /\ ~cache[Key(h)].exists)

\* a thumbnail request for a missing source has been answered
C11_Witness ==
    \E h \in Handlers :
        /\ hpc[h] = "serve" /\ asked[h].size = ThumbWidth
        /\ "opensrc" \in fails[h]
        /\ src[asked[h].path] = NoFile
        /\ himg[h].err = "NotFound"

\* C12: a request with size > 0 whose source matches the image pattern but
\* is not decodable JPEG content is published with the decode error, the
\* request creates no cache file, and the worker goes on: it publishes the
\* failed request, returns to the intake channel and never leaves its loop.
C12_DecodeError ==
    /\ [][\A w \in Workers :
            (wpc[w] = "decode" /\ wpc'[w] # "decode"
                /\ fdtab[Req(w)].src.snap.kind = "other") =>
               /\ "decode" \in fails'[Req(w)]
               /\ wimg'[w].err = "DecodeError"
               /\ wpc'[w] = "publish"
               /\ cache' = cache]_vars
    /\ [][\A w \in Workers :
            (wpc[w] = "publish" /\ wpc'[w] # "publish") => wpc'[w] = "wait"]_vars
    /\ [](\A w \in Workers :
            /\ wpc[w] \in SectionPcs \cup {"wait", "publish"}
            /\ (wpc[w] = "publish" /\ "decode" \in fails[Req(w)]) =>
                  ~cache[wcached[w]].exists)
    /\ [](\A h \in Handlers :
            (hpc[h] = "serve" /\ "decode" \in fails[h]) =>
               /\ asked[h].size > 0 /\ imgre(asked[h].path)
               /\ himg[h].err = "DecodeError"
               /\ ops[h] \cap {"create", "encode"} = {}
               /\ fdtab[h].cache.opens = 0)

\* a request failed to decode and the request accepted after it has been
\* processed and answered
C12_Witness ==
    \E h1, h2 \in Handlers :
        /\ enq = <<h1, h2>>
        /\ hpc[h1] = "serve" /\ "decode" \in fails[h1]
        /\ asked[h1].size = ThumbWidth
        /\ ~cache[Key(h1)].exists
        /\ hpc[h2] = "serve" /\ sent[h2] = 1

\* the file fd refers to has been opened and not closed
IsOpen(fd) ==
    /\ fd # NilFd
    /\ fdtab[fd.req][fd.tree].opens = fdtab[fd.req][fd.tree].closes + 1

\* C13: every published result carries either an open file handle and no
\* error, or an error and a nil handle; none carries both a handle and an
\* error, none carries neither.
C13_HandleXorError ==
    \A h \in Handlers :
        hpc[h] = "serve" =>
            \/ IsOpen(himg[h].fd) /\ himg[h].err = NilErr
            \/ himg[h].fd = NilFd /\ himg[h].err # NilErr

\* C14: whenever a step of processing a request failed (opening or stating
\* the source, creating the cache directory, decoding, creating the cache
\* file, writing the encoded thumbnail, opening or stating the cache file on
\* a hit), the result published for that request carries a non-nil error.
C14_FailureIsReported ==
    \A h \in Handlers :
        (hpc[h] = "serve" /\ fails[h] # {}) => himg[h].err # NilErr

\* C15: a non-nil handle delivered to a handler is a file of its own
\* request that is open when delivered; no file is closed more often than
\* opened; and once a result is published the files of that request change
\* only when the receiving handler closes the delivered handle, after it
\* has written the response: the worker does not close or reopen them.
C15_HandleOwnedByCaller ==
    /\ [](\A h \in Handlers :
            /\ \A t \in Trees : fdtab[h][t].closes <= fdtab[h][t].opens
            /\ (hpc[h] = "serve" /\ himg[h].fd # NilFd) =>
                  (himg[h].fd.req = h /\ IsOpen(himg[h].fd)))
    /\ [][\A h \in Handlers :
            (hpc[h] \in {"serve", "done"} /\ fdtab'[h] # fdtab[h]) =>
               /\ hpc[h] = "serve" /\ hpc'[h] = "done"
               /\ served'[h] # NoResponse
               /\ himg[h].fd # NilFd
               /\ fdtab' = Closed(himg[h].fd)]_vars

\* a handler holds the open cache file its request generated, after the
\* worker closed the source it had opened for that request
C15_Witness ==
    \E h \in Handlers :
        /\ hpc[h] = "serve" /\ himg[h].fd.tree = "cache"
        /\ IsOpen(himg[h].fd)
        /\ fdtab[h].src.opens = 1 /\ fdtab[h].src.closes = 1
        /\ \E w \in Workers : wpc[w] \in SectionPcs

\* C16: a request whose cache file exists goes through reqimage and the
\* worker like any other: a handler has no file handle, no open file and no
\* response before the worker has accepted and answered its request; while
\* the worker holds a request no other waiting request is processed or
\* answered; and results are published in the order of acceptance.
C16_HitsGoThroughWorker ==
    /\ \A h \in Handlers :
          /\ himg[h].fd # NilFd => (Enqueued(h) /\ sent[h] = 1)
          /\ (\E t \in Trees : fdtab[h][t].opens > 0) => Enqueued(h)
          /\ hpc[h] \in {"idle", "send", "recv"} =>
                (himg[h].fd = NilFd /\ served[h] = NoResponse /\ sent[h] = 0)
    /\ \A h1, h2 \in Handlers :
          (h1 # h2 /\ HeldByWorker(h1) /\ hpc[h2] \in {"send", "recv"}) =>
              (hpc[h2] = "send" /\ ops[h2] = {} /\ fdtab[h2].cache.opens = 0)
    /\ \A i, j \in 1..Len(enq) :
          (i < j /\ sent[enq[j]] = 1) => sent[enq[i]] = 1

\* a request whose cache file already exists waits on reqimage while the
\* worker is still writing that file for the miss accepted before it
C16_Witness ==
    \E h1, h2 \in Handlers :
        /\ h1 # h2 /\ hpc[h1] = "recv" /\ hpc[h2] = "send"
        /\ \E w \in Workers : wpc[w] = "encode" /\ Req(w) = h1
        /\ asked[h2].size > 0
        /\ cache[Key(h2)].exists

\* C17: the set of cache files only grows: no step removes a cache file; a
\* cache file is created only by a request that found it missing; and a
\* cache file that exists is never truncated or written again, except by
\* the one write that follows its creation.
C17_CacheOnlyGrows ==
    /\ [](\A c \in CachePaths :
            /\ cache[c].gen <= 1
            /\ cache[c].exists <=> cache[c].gen = 1)
    /\ [](\A h \in Handlers : hitAtDeq[h] => "create" \notin ops[h])
    /\ [][\A c \in CachePaths :
            /\ cache[c].exists => cache'[c].exists
            /\ (cache[c].exists /\ ~BeingWritten(c)) => cache'[c] = cache[c]
            /\ (~cache[c].exists /\ cache'[c].exists) =>
                  \E w \in Workers :
                      /\ wpc[w] = "create" /\ wcached[w] = c
                      /\ ~hitAtDeq[Req(w)]]_vars

\* two cache files exist, made by two misses, the older one still whole
C17_Witness ==
    /\ Cardinality({c \in CachePaths : cache[c].exists}) = 2
    /\ \E c \in CachePaths :
          /\ cache[c].exists /\ cache[c].data.whole
          /\ \E w \in Workers : wpc[w] = "publish" /\ wcached[w] # c

\* the gallery file of h's request is as h's request found it
SourceUnchanged(h) ==
    IF fdtab[h].src.opens = 0 THEN src[asked[h].path] = NoFile
    ELSE src[asked[h].path] = fdtab[h].src.snap

\* C18: a request one of whose steps failed leaves no cache file it created
\* for its key; a later identical request that finds the file system
\* unchanged fails at the same steps with the same error; and a request
\* answered from the cache never receives the product of a failed write.
C18_FailureNotCached ==
    /\ \A h \in Handlers :
          (hpc[h] = "serve" /\ fails[h] # {}) =>
              ~("create" \in ops[h] /\ cache[Key(h)].exists)
    /\ \A h1, h2 \in Handlers :
          (/\ hpc[h1] = "serve" /\ hpc[h2] = "serve"
           /\ \E i, j \in 1..Len(enq) : i < j /\ enq[i] = h1 /\ enq[j] = h2
           /\ asked[h1] = asked[h2]
           /\ fails[h1] # {}
           /\ SourceUnchanged(h1) /\ SourceUnchanged(h2)) =>
              (fails[h2] = fails[h1] /\ himg[h2].err = himg[h1].err)
    /\ \A h \in Handlers :
          (hpc[h] = "serve" /\ hitAtDeq[h]) => ReadFd(himg[h].fd).whole

\* C20: when the result a handler received carries an error, the handler
\* answers with an error status and sends no bytes of the file the result's
\* handle refers to.
C20_ErrorNotStreamed ==
    [][\A h \in Handlers :
          (hpc[h] = "serve" /\ himg[h].err # NilErr /\ hpc'[h] = "done") =>
              (served'[h].status >= 400 /\ served'[h].data = NoData)]_vars

\* C21: when the result a handler received carries an error, the log holds
\* an entry with that error for the request once the handler has returned.
C21_ErrorIsLogged ==
    [][\A h \in Handlers :
          (hpc[h] = "serve" /\ himg[h].err # NilErr /\ hpc'[h] = "done") =>
              himg[h].err \in logged'[h]]_vars

\* the closure returned by authenticate has ended, by return or by panic
AuthEnded == auth.pc \in {"done", "panic"}

Wrote401 == \E i \in 1..Len(auth.out) : auth.out[i] = "401"

\* C22: the wrapped handler is invoked only when authentication is disabled
\* or the Authorization header carries the listed user with the configured
\* password; for every other request the handler is not invoked and the
\* request ends with the 401 response.
C22_PassOnlyWhenAllowed ==
    /\ auth.calls > 0 => (~auth.enabled \/ auth.hdr.kind = "valid")
    /\ (AuthEnded /\ auth.enabled /\ auth.hdr.kind # "valid") =>
          (auth.calls = 0 /\ Wrote401)

\* C23: the wrapped handler is invoked at most once per request, and once
\* it has been invoked the wrapper writes nothing more: the response is the
\* handler's alone.
C23_PassOnceThenSilent ==
    /\ auth.calls <= 1
    /\ auth.calls > 0 => auth.out = <<"pass">>

\* the cases of an Authorization header that carries no valid credential
Malformed ==
    {"missing", "short", "nonbasic", "badbase64", "nocolon", "unknownuser",
     "wrongpassword"}

\* C24: with authentication enabled, a request with a malformed credential
\* never panics and never reaches the wrapped handler, and it ends with the
\* 401 response.
C24_MalformedGets401 ==
    (auth.enabled /\ auth.hdr.kind \in Malformed) =>
        /\ auth.pc # "panic"
        /\ auth.calls = 0
        /\ auth.pc = "done" => Wrote401

\* C25: once the handler of an image request has returned, every file
\* opened for the request, source or cache file, has been closed exactly
\* once, whatever step failed; no file is closed more often than opened,
\* and a request opens at most one file in each tree.
C25_NoDescriptorLeak ==
    \A h \in Handlers : \A t \in Trees :
        /\ fdtab[h][t].closes <= fdtab[h][t].opens
        /\ fdtab[h][t].opens <= 1
        /\ hpc[h] = "done" => fdtab[h][t].closes = fdtab[h][t].opens

\* a request whose cache file could not be created has returned: it had
\* opened the source, and one whose result carried the source with an error
\* has returned too
C25_Witness ==
    \E h1, h2 \in Handlers :
        /\ hpc[h1] = "done" /\ served[h1].status = 500
        /\ fdtab[h1].src.opens = 1 /\ fdtab[h1].cache.opens = 0
        /\ hpc[h2] = "done" /\ logged[h2] # {} /\ served[h2].status = 200
        /\ fdtab[h2].src.opens = 1

\* the error each step of getImage returns when it fails
ErrOf(op) ==
    CASE op = "decode" -> "DecodeError"
      [] op = "create" -> "IOError"
      [] OTHER -> "NotFound"

\* the modification time of h's result was set by a step of h's request
ModTimeOwn(h) ==
    LET m == himg[h].modtime
    IN \/ m = ZeroTime
       \/ m = Now /\ "encode" \in ops[h]
       \/ m.of = "src" /\ m.name = asked[h].path /\ "stat0" \in ops[h]
       \/ m = CacheModTime(Key(h)) /\ "statcache2" \in ops[h]

\* C26: a request none of whose steps failed is published with a nil error
\* and an open handle, also after a miss, whose failed existence check went
\* through the same error field; and every field of a result comes from the
\* request it answers: its path, size and channel, an error of one of its
\* own failed steps, a handle it opened, a modification time it set, a
\* cache path computed from its key.
C26_NoLeftover ==
    \A h \in Handlers :
        hpc[h] = "serve" =>
            /\ fails[h] = {} =>
                  (himg[h].err = NilErr /\ IsOpen(himg[h].fd)
                     /\ himg[h].modtime # ZeroTime)
            /\ himg[h].err # NilErr =>
                  \E op \in fails[h] : himg[h].err = ErrOf(op)
            /\ himg[h].path = asked[h].path
            /\ himg[h].size = asked[h].size
            /\ himg[h].returnchan = h
            /\ himg[h].fd # NilFd =>
                  (himg[h].fd.req = h /\ fdtab[h][himg[h].fd.tree].opens = 1)
            /\ ModTimeOwn(h)
            /\ fdtab[h].cache.name \in {<<>>, Key(h)}
            /\ fdtab[h].src.name \in {<<>>, asked[h].path}

\* a request for the source itself fails right after the worker generated
\* a thumbnail: the worker still holds that request's cache path
C26_Witness ==
    \E h1, h2 \in Handlers :
        /\ enq = <<h1, h2>> /\ hpc[h2] = "serve"
        /\ asked[h2].size = 0 /\ himg[h2].err = "NotFound"
        /\ himg[h2].modtime = ZeroTime /\ himg[h2].fd = NilFd
        /\ \E w \in Workers :
              wcached[w] \in CachePaths /\ cache[wcached[w]].exists

\* C27: the worker never sends on a closed return channel: a return
\* channel is closed only by its handler, after the handler has received
\* the one result sent on it and returned; while the worker is at the send
\* the channel is open and its handler is at the receive.
C27_NoSendOnClosed ==
    /\ \A w \in Workers :
          /\ wpc[w] # "panic"
          /\ wpc[w] = "publish" =>
                (~closed[Req(w)] /\ hpc[Req(w)] = "recv" /\ sent[Req(w)] = 0)
    /\ \A h \in Handlers :
          closed[h] => (sent[h] = 1 /\ hpc[h] = "done")

\* the worker is at the send for one request after the handler of the
\* request before it has closed its channel
C27_Witness ==
    \E h1, h2 \in Handlers :
        /\ h1 # h2 /\ closed[h1] /\ ~closed[h2]
        /\ \E w \in Workers : wpc[w] = "publish" /\ Req(w) = h2

\* C28: the worker takes the next request only after the requester of the
\* current one has received its result: every request accepted before
\* another has been received by its handler, a worker back at the range
\* leaves no handler waiting for a result, and at most one accepted request
\* has a result not yet received.
C28_ReceivedBeforeNext ==
    /\ \A i, j \in 1..Len(enq) :
          i < j => (hpc[enq[i]] \in {"serve", "done"} /\ ~HeldByWorker(enq[i]))
    /\ (\A w \in Workers : wpc[w] = "wait") =>
          (\A h \in Handlers : hpc[h] # "recv")
    /\ Cardinality({h \in Handlers : Enqueued(h) /\ hpc[h] = "recv"}) <= 1

\* the worker has just taken the second request, whose processing has not
\* begun, and the first requester holds its result and has not served it
C28_Witness ==
    /\ Len(enq) > 1
    /\ hpc[enq[1]] = "serve"
    /\ hpc[enq[2]] = "recv" /\ ops[enq[2]] = {}
    /\ HeldByWorker(enq[2])

\* the file the worker's img.fd refers to
FileOf(fd) ==
    IF fd = NilFd THEN NilFile
    ELSE [tree |-> fd.tree, name |-> fdtab[fd.req][fd.tree].name]

\* C29: processing one request at a time, the worker reaches its send with
\* the outcome of the earlier getImage(path, size) on the same file system:
\* the same file behind the handle (or nil), the same modification time, the
\* same error, the same cache tree and directories; the case left out, a
\* failing os.Create, is the one where the earlier version ends the process.
\* The handler receives that outcome.
C29_RefinesDirectCall ==
    /\ \A w \in Workers :
          wpc[w] = "publish" =>
            /\ ref.req = Req(w)
            /\ ref.fatal <=> "create" \in fails[Req(w)]
            /\ ~ref.fatal =>
                  /\ FileOf(wimg[w].fd) = ref.fd
                  /\ wimg[w].modtime = ref.modtime
                  /\ wimg[w].err = ref.err
                  /\ CacheTree(cache) = ref.files
                  /\ dirs = ref.dirs
    /\ \A h \in Handlers :
          (hpc[h] = "serve" /\ ref.req = h /\ ~ref.fatal) =>
            /\ FileOf(himg[h].fd) = ref.fd
            /\ himg[h].modtime = ref.modtime
            /\ himg[h].err = ref.err

\* the worker generated a cached file that a first request had left
\* truncated, as the earlier getImage does
C29_Witness ==
    \E w \in Workers :
        /\ wpc[w] = "publish" /\ ref.req = Req(w) /\ Req(w) > 1
        /\ "encode" \in ops[Req(w)]
        /\ ref.fd.tree = "cache" /\ ref.modtime = Now

====
